---- MODULE Spec2Model ----
(***************************************************************************)
(* hoWallet ledger: TransactionService Create/Update/Delete and            *)
(* AccountService Get/Update/Delete over the accounts and transactions     *)
(* tables, ExportService.ExportCSV, and HouseholdService.AcceptInvitation  *)
(* over the invitations and household_members tables.                      *)
(*                                                                         *)
(* Every SQL statement is one atomic step.  A worker's statements inside   *)
(* RunInTx write to an overlay that other workers cannot see until the     *)
(* commit (read committed); a written row is locked until the commit or    *)
(* the rollback.                                                           *)
(*                                                                         *)
(* Amounts and balances are integers that count units of 0.00005, half     *)
(* the step 0.0001 of a DECIMAL(19,4) column.                              *)
(***************************************************************************)
EXTENDS Integers, Sequences, FiniteSets, TLC

\* Step of a DECIMAL(19,4) column, in units of 0.00005.
ColumnStep == 2

\* Largest magnitude a DECIMAL(19,4) column holds, shrunk from 10^15.
NumericMax == 8

\* Number of transaction ids that can be live or in use at the same time.
MaxTxn == 2

Nil == "nil"

Households == {"h1", "h2"}

AccountIds == {"a1", "a2", "a3"}

TxnIds == 1 .. MaxTxn

Workers == {"w1", "w2"}

\* The household that owns each account when the ledger is opened.
AccountHousehold == [a \in AccountIds |-> IF a = "a3" THEN "h2" ELSE "h1"]

\* The balance each account was created with (AccountService.Create).
OpeningBalance == [a \in AccountIds |-> IF a = "a1" THEN 4 ELSE IF a = "a2" THEN 0 ELSE 2]

\* CREATE TYPE transaction_type AS ENUM ('income', 'expense', 'transfer')
TransactionTypes == {"income", "expense", "transfer"}

NoAccount == [exists |-> FALSE, household |-> "none", name |-> "none", balance |-> 0]

NoTransaction ==
    [exists |-> FALSE, household |-> "none", type |-> "none", amount |-> 0,
     account |-> "none", dest |-> Nil]

Abs(x) == IF x < 0 THEN -x ELSE x

\* Coercion of a numeric value to scale 4: ties are rounded away from zero.
Round4(x) ==
    LET up(n) == ((2 * n + ColumnStep) \div (2 * ColumnStep)) * ColumnStep
    IN  IF x >= 0 THEN up(x) ELSE -up(-x)

\* "numeric field overflow" of a DECIMAL(19,4) column.
Overflow(x) == Abs(x) > NumericMax

\* decimal.NewFromString on the amount strings the requests carry.
NewFromString(s) ==
    CASE s = "0.00005" -> [err |-> FALSE, value |-> 1]
      [] s = "0.0001" -> [err |-> FALSE, value |-> 2]
      [] s = "0.0002" -> [err |-> FALSE, value |-> 4]
      [] s = "0" -> [err |-> FALSE, value |-> 0]
      [] s = "-0.0001" -> [err |-> FALSE, value |-> -2]
      [] OTHER -> [err |-> TRUE, value |-> 0]

VARIABLES
    accounts,       \* committed rows of table accounts
    transactions,   \* committed rows of table transactions
    tx,             \* per worker: the request it serves and its open database transaction
    created         \* history: the last Create to complete, the balances before it,
                    \* and whether only successful Updates of its record followed

VARIABLES
    invitations,        \* committed row of table invitations that holds the token
    household_members,  \* committed rows of table household_members: the users that
                        \* joined the household of the invitation
    accept              \* per user: the AcceptInvitation call it makes

\* The tables of the household workflow, which no ledger operation touches.
membership == <<invitations, household_members, accept>>

\* The tables and workers of the ledger, which AcceptInvitation does not touch.
ledger == <<accounts, transactions, tx, created>>

vars == <<accounts, transactions, tx, created, invitations, household_members, accept>>

NoWrite == [a \in AccountIds |-> [written |-> FALSE, balance |-> 0]]

NoRowWrite == [written |-> FALSE, row |-> NoTransaction]

Idle ==
    [op |-> "none", pc |-> "idle", household |-> "none", id |-> 0, type |-> "none",
     amount |-> "", value |-> 0, account |-> "none", dest |-> Nil,
     legs |-> <<>>, after |-> "idle", wacc |-> NoWrite, wtxn |-> NoRowWrite,
     keyshare |-> {}, res |-> "none"]

InFlight(t) == t.pc \notin {"idle", "done"}

NoCreated == [id |-> 0, balances |-> [a \in AccountIds |-> 0], updated |-> FALSE]

----------------------------------------------------------------------------
(* What a statement of worker t sees: its own writes over the committed rows. *)

SeenAccount(acc, t, a) ==
    IF t.wacc[a].written THEN [acc[a] EXCEPT !.balance = t.wacc[a].balance] ELSE acc[a]

SeenTransaction(txn, t, id) ==
    IF t.wtxn.written /\ t.id = id THEN t.wtxn.row ELSE txn[id]

(* A single SELECT on the pool, outside any transaction: the committed rows. *)

\* A read that sees the uncommitted writes of an open transaction.
DirtyReadAccount(acc, a) ==
    LET writers == {w \in Workers : InFlight(tx[w]) /\ tx[w].wacc[a].written}
    IN  IF writers = {} THEN acc[a]
        ELSE SeenAccount(acc, tx[CHOOSE w \in writers : TRUE], a)

ReadAccount(acc, a) == acc[a]

ReadTransaction(txn, id) == txn[id]

(* Row locks held by the open transactions of the other workers. *)
\* An UPDATE of accounts that does not wait for the writer of the row.
AccountNeverWriteLocked(w, a) == FALSE

AccountWriteLocked(w, a) ==
    \E v \in Workers \ {w} : InFlight(tx[v]) /\ tx[v].wacc[a].written

AccountKeyShared(w, a) ==
    \E v \in Workers \ {w} : InFlight(tx[v]) /\ a \in tx[v].keyshare

\* A DELETE of transactions that does not wait for the writer of the row.
TransactionNeverLocked(w, id) == FALSE

TransactionLocked(w, id) ==
    \E v \in Workers \ {w} : InFlight(tx[v]) /\ tx[v].wtxn.written /\ tx[v].id = id

----------------------------------------------------------------------------
(* Balance helpers: the UpdateBalance calls each helper makes, in order. *)

applyBalanceChange(txnType, amount, accountID, destID) ==
    CASE txnType = "income" ->
            [err |-> "none", legs |-> <<[id |-> accountID, delta |-> amount]>>]
      [] txnType = "expense" ->
            [err |-> "none", legs |-> <<[id |-> accountID, delta |-> -amount]>>]
      [] txnType = "transfer" ->
            IF destID = Nil
            THEN [err |-> "TransferMissingDest", legs |-> <<>>]
            ELSE [err |-> "none",
                  legs |-> <<[id |-> accountID, delta |-> -amount],
                             [id |-> destID, delta |-> amount]>>]
      [] OTHER -> [err |-> "none", legs |-> <<>>]

\* A reversal that repeats the signs of applyBalanceChange.
reverseWithSignsOfApply(txnType, amount, accountID, destID) ==
    applyBalanceChange(txnType, amount, accountID, destID)

\* A reversal that skips the destination leg of a transfer.
reverseWithoutDestinationLeg(txnType, amount, accountID, destID) ==
    CASE txnType = "income" ->
            [err |-> "none", legs |-> <<[id |-> accountID, delta |-> -amount]>>]
      [] txnType = "expense" ->
            [err |-> "none", legs |-> <<[id |-> accountID, delta |-> amount]>>]
      [] txnType = "transfer" ->
            [err |-> "none", legs |-> <<[id |-> accountID, delta |-> amount]>>]
      [] OTHER -> [err |-> "none", legs |-> <<>>]

reverseBalanceChange(txnType, amount, accountID, destID) ==
    CASE txnType = "income" ->
            [err |-> "none", legs |-> <<[id |-> accountID, delta |-> -amount]>>]
      [] txnType = "expense" ->
            [err |-> "none", legs |-> <<[id |-> accountID, delta |-> amount]>>]
      [] txnType = "transfer" ->
            IF destID = Nil
            THEN [err |-> "none", legs |-> <<>>]
            ELSE [err |-> "none",
                  legs |-> <<[id |-> accountID, delta |-> amount],
                             [id |-> destID, delta |-> -amount]>>]
      [] OTHER -> [err |-> "none", legs |-> <<>>]

----------------------------------------------------------------------------
(* SQL statements.  Each returns what it writes and whether it failed. *)

\* UPDATE accounts SET balance = balance + $2 WHERE id = $1
\* No row: nothing is updated and no error is returned (exec drops the command tag).
UpdateAccountBalance(acc, t, id, delta) ==
    LET row == SeenAccount(acc, t, id)
        sum == Round4(row.balance + delta)
    IN  IF ~row.exists THEN [err |-> FALSE, wacc |-> t.wacc]
        ELSE IF Overflow(sum) THEN [err |-> TRUE, wacc |-> t.wacc]
        ELSE [err |-> FALSE,
              wacc |-> [t.wacc EXCEPT ![id] = [written |-> TRUE, balance |-> sum]]]

\* The column constraints of table transactions on an inserted or updated row:
\* the enum type, the two foreign keys to accounts (id), the scale of amount.
TransactionRow(acc, hh, type, value, account, dest) ==
    LET amount == Round4(value)
        fk == acc[account].exists /\ (dest = Nil \/ acc[dest].exists)
    IN  IF type \notin TransactionTypes \/ ~fk \/ Overflow(amount)
        THEN [err |-> TRUE, row |-> NoTransaction]
        ELSE [err |-> FALSE,
              row |-> [exists |-> TRUE, household |-> hh, type |-> type,
                       amount |-> amount, account |-> account, dest |-> dest]]

\* INSERT INTO transactions (...) VALUES (...) RETURNING ...
CreateTransaction(acc, t) ==
    TransactionRow(acc, t.household, t.type, t.value, t.account, t.dest)

\* The SELECT without its household_id filter.
GetTransactionOfAnyHousehold(txn, t) ==
    LET row == SeenTransaction(txn, t, t.id)
    IN  IF row.exists THEN [err |-> FALSE, row |-> row]
        ELSE [err |-> TRUE, row |-> NoTransaction]

\* SELECT ... FROM transactions WHERE id = $1 AND household_id = $2
GetTransaction(txn, t) ==
    LET row == SeenTransaction(txn, t, t.id)
    IN  IF row.exists /\ row.household = t.household
        THEN [err |-> FALSE, row |-> row]
        ELSE [err |-> TRUE, row |-> NoTransaction]

\* UPDATE transactions SET ... WHERE id = $1 AND household_id = $2 RETURNING ...
UpdateTransaction(acc, txn, t) ==
    IF GetTransaction(txn, t).err
    THEN [err |-> TRUE, row |-> NoTransaction]
    ELSE TransactionRow(acc, t.household, t.type, t.value, t.account, t.dest)

\* DELETE FROM transactions WHERE id = $1 AND household_id = $2 RETURNING ...
DeleteTransaction(txn, t) == GetTransaction(txn, t)

\* SELECT COUNT(*) FROM transactions WHERE account_id = $1
CountTransactionsByAccount(txn, accountID) ==
    Cardinality({i \in TxnIds : txn[i].exists /\ txn[i].account = accountID})

----------------------------------------------------------------------------
(* Unit of work. *)

\* The handler returns res without having opened a transaction.
Return(t, res) == [t EXCEPT !.pc = "done", !.res = res]

\* fn returns inside RunInTx: nil after its last statement, an error otherwise.
Exit(t, res) == [t EXCEPT !.pc = "done", !.res = res]

\* A unit of work that lost its rollback: the writes of fn are kept whatever fn returns.
RunInTxWithoutRollback(acc, txn, t) ==
    [accounts |-> [a \in AccountIds |-> SeenAccount(acc, t, a)],
     transactions |-> [i \in TxnIds |-> SeenTransaction(txn, t, i)]]

\* RunInTx after fn returned: tx.Commit makes the writes of fn the committed rows;
\* on an error the deferred tx.Rollback discards them.
RunInTx(acc, txn, t) ==
    IF t.res = "ok"
    THEN [accounts |-> [a \in AccountIds |-> SeenAccount(acc, t, a)],
          transactions |-> [i \in TxnIds |-> SeenTransaction(txn, t, i)]]
    ELSE [accounts |-> acc, transactions |-> txn]

\* The connection goes back to the pool: no overlay, no locks.
Released(t) == [t EXCEPT !.wacc = NoWrite, !.wtxn = NoRowWrite, !.keyshare = {}]

\* Continue with the UpdateBalance calls of a balance helper, then with `after`.
Continue(t, change, after) ==
    IF change.err # "none" THEN Exit(t, change.err)
    ELSE IF change.legs = <<>> THEN [t EXCEPT !.pc = after, !.legs = <<>>, !.after = after]
    ELSE [t EXCEPT !.pc = "legs", !.legs = change.legs, !.after = after]

\* The smallest id no committed row and no open request uses (gen_random_uuid()).
Unused(i) ==
    /\ ~transactions[i].exists
    /\ \A v \in Workers : InFlight(tx[v]) => tx[v].id # i

FreshId == CHOOSE i \in TxnIds : Unused(i) /\ \A j \in TxnIds : Unused(j) => i <= j

Quiet == \A v \in Workers : tx[v].pc = "idle"

\* A statement of worker w left its transaction in state t: the worker goes on,
\* or fn has returned and RunInTx ends the transaction.
Advance(w, t) ==
    /\ UNCHANGED membership
    /\ IF t.pc = "done"
       THEN LET end == RunInTx(accounts, transactions, t)
            IN  /\ accounts' = end.accounts
                /\ transactions' = end.transactions
                /\ tx' = [tx EXCEPT ![w] = Released(t)]
                /\ created' =
                       IF t.op = "create" /\ t.res = "ok"
                          /\ \A v \in Workers \ {w} : tx[v].pc = "idle"
                       THEN [id |-> t.id,
                             balances |-> [a \in AccountIds |-> accounts[a].balance],
                             updated |-> FALSE]
                       ELSE IF t.op = "update" /\ t.res = "ok" /\ t.id = created.id
                       THEN created
                       ELSE NoCreated
       ELSE /\ tx' = [tx EXCEPT ![w] = t]
            /\ UNCHANGED <<accounts, transactions, created>>

----------------------------------------------------------------------------
(* TransactionService *)

\* A service that opens the transaction without checking the request.
ValidateNothing(amount, type, dest) == "none"

\* Create and Update check the request before they open the transaction.
Validate(amount, type, dest) ==
    IF NewFromString(amount).err THEN "InvalidAmount"
    ELSE IF type = "transfer" /\ dest = Nil THEN "TransferMissingDest"
    ELSE "none"

Request(op, id, hh, type, amount, account, dest) ==
    [Idle EXCEPT !.op = op, !.id = id, !.household = hh, !.type = type,
                 !.amount = amount, !.value = NewFromString(amount).value,
                 !.account = account, !.dest = dest]

Refs(account, dest) == {account} \cup (IF dest = Nil THEN {} ELSE {dest})

BeginCreate(w, hh, type, amount, account, dest) ==
    /\ tx[w].pc = "idle"
    /\ \E i \in TxnIds : Unused(i)
    /\ LET t == Request("create", FreshId, hh, type, amount, account, dest)
           v == Validate(amount, type, dest)
       IN  tx' = [tx EXCEPT ![w] = IF v # "none" THEN Return(t, v)
                                   ELSE [t EXCEPT !.pc = "insert"]]
    /\ created' = NoCreated
    /\ UNCHANGED <<accounts, transactions>>
    /\ UNCHANGED membership

Insert(w) ==
    /\ tx[w].pc = "insert"
    /\ LET t == tx[w]
           r == CreateTransaction(accounts, t)
       IN  Advance(w,
                IF r.err THEN Exit(t, "StoreError")
                ELSE Continue([t EXCEPT !.wtxn = [written |-> TRUE, row |-> r.row],
                                        !.keyshare = Refs(t.account, t.dest)],
                              applyBalanceChange(t.type, t.value, t.account, t.dest),
                              "commit"))

BeginUpdate(w, id, hh, type, amount, account, dest) ==
    /\ tx[w].pc = "idle"
    /\ LET t == Request("update", id, hh, type, amount, account, dest)
           v == Validate(amount, type, dest)
       IN  tx' = [tx EXCEPT ![w] = IF v # "none" THEN Return(t, v)
                                   ELSE [t EXCEPT !.pc = "get"]]
    /\ created' = IF id = created.id /\ Validate(amount, type, dest) = "none"
                  THEN [created EXCEPT !.updated = TRUE]
                  ELSE NoCreated
    /\ UNCHANGED <<accounts, transactions>>
    /\ UNCHANGED membership

Get(w) ==
    /\ tx[w].pc = "get"
    /\ LET t == tx[w]
           old == GetTransaction(transactions, t)
       IN  Advance(w,
                IF old.err THEN Exit(t, "NotFound")
                ELSE Continue(t,
                              reverseBalanceChange(old.row.type, old.row.amount,
                                                   old.row.account, old.row.dest),
                              "update"))

Update(w) ==
    /\ tx[w].pc = "update"
    /\ ~TransactionLocked(w, tx[w].id)
    /\ LET t == tx[w]
           r == UpdateTransaction(accounts, transactions, t)
       IN  Advance(w,
                IF r.err THEN Exit(t, "StoreError")
                ELSE Continue([t EXCEPT !.wtxn = [written |-> TRUE, row |-> r.row],
                                        !.keyshare = @ \cup Refs(t.account, t.dest)],
                              applyBalanceChange(t.type, t.value, t.account, t.dest),
                              "commit"))

BeginDelete(w, id, hh) ==
    /\ tx[w].pc = "idle"
    /\ tx' = [tx EXCEPT ![w] =
                [Request("delete", id, hh, "none", "", "none", Nil) EXCEPT !.pc = "delete"]]
    /\ created' = IF id = created.id THEN created ELSE NoCreated
    /\ UNCHANGED <<accounts, transactions>>
    /\ UNCHANGED membership

Delete(w) ==
    /\ tx[w].pc = "delete"
    /\ ~TransactionLocked(w, tx[w].id)
    /\ LET t == tx[w]
           deleted == DeleteTransaction(transactions, t)
       IN  Advance(w,
                IF deleted.err THEN Exit(t, "NotFound")
                ELSE Continue([t EXCEPT !.wtxn = [written |-> TRUE, row |-> NoTransaction]],
                              reverseBalanceChange(deleted.row.type, deleted.row.amount,
                                                   deleted.row.account, deleted.row.dest),
                              "commit"))

\* One accounts.UpdateBalance call of a balance helper; it waits for the row lock.
Leg(w) ==
    /\ tx[w].pc = "legs"
    /\ ~AccountWriteLocked(w, Head(tx[w].legs).id)
    /\ LET t == tx[w]
           leg == Head(t.legs)
           rest == Tail(t.legs)
           r == UpdateAccountBalance(accounts, t, leg.id, leg.delta)
       IN  Advance(w,
                IF r.err THEN Exit(t, "StoreError")
                ELSE [t EXCEPT !.wacc = r.wacc, !.legs = rest,
                               !.pc = IF rest = <<>> THEN t.after ELSE "legs"])

\* Worker w is at an UpdateBalance call on a row that the open transaction of v wrote.
WaitsFor(w, v) ==
    /\ tx[w].pc = "legs"
    /\ InFlight(tx[v])
    /\ tx[v].wacc[Head(tx[w].legs).id].written

\* A store that detects no lock cycle.
NoWaitCycle(w) == FALSE

\* The source leg then the destination leg, each holding its row until the commit:
\* two transactions wait for each other's row.
WaitCycle(w) == \E v \in Workers \ {w} : WaitsFor(w, v) /\ WaitsFor(v, w)

\* The store breaks a lock cycle: the waiting statement of one transaction returns
\* the error "deadlock detected", fn returns it and RunInTx rolls back.
Deadlock(w) ==
    /\ WaitCycle(w)
    /\ Advance(w, Exit(tx[w], "StoreError"))

\* fn returned nil.
Commit(w) ==
    /\ tx[w].pc = "commit"
    /\ Advance(w, Exit(tx[w], "ok"))

\* The error a handler returns when the statement it is at fails in the store
\* (connection lost, context cancelled or timed out, deadlock victim).
ErrorAt(t) ==
    IF (t.op = "update" /\ t.pc = "get") \/ (t.op = "delete" /\ t.pc = "delete")
    THEN "NotFound"
    ELSE "StoreError"

Fail(w) ==
    /\ tx[w].pc \in {"insert", "get", "update", "delete", "legs", "commit"}
    /\ Advance(w, Exit(tx[w], ErrorAt(tx[w])))

\* The handler has returned; the worker takes the next request.
Finish(w) ==
    /\ tx[w].pc = "done"
    /\ tx' = [tx EXCEPT ![w] = Idle]
    /\ UNCHANGED <<accounts, transactions, created>>
    /\ UNCHANGED membership

----------------------------------------------------------------------------
(* AccountService.Delete: two statements on the pool, no transaction. *)

BeginAccountDelete(w, id, hh) ==
    /\ tx[w].pc = "idle"
    /\ tx' = [tx EXCEPT ![w] =
                [Request("acctdelete", 0, hh, "none", "", id, Nil) EXCEPT !.pc = "count"]]
    /\ created' = NoCreated
    /\ UNCHANGED <<accounts, transactions>>
    /\ UNCHANGED membership

Count(w) ==
    /\ tx[w].pc = "count"
    /\ tx' = [tx EXCEPT ![w] =
                IF CountTransactionsByAccount(transactions, tx[w].account) > 0
                THEN Return(tx[w], "HasTransactions")
                ELSE [tx[w] EXCEPT !.pc = "acctdelete"]]
    /\ UNCHANGED <<accounts, transactions, created>>
    /\ UNCHANGED membership

\* Rows of transactions that reference the account: ON DELETE CASCADE removes them.
Referencing(txn, a) ==
    {i \in TxnIds : txn[i].exists /\ (txn[i].account = a \/ txn[i].dest = a)}

\* DELETE FROM accounts WHERE id = $1 AND household_id = $2
DeleteAccount(w) ==
    /\ tx[w].pc = "acctdelete"
    /\ LET t == tx[w]
           a == t.account
           hit == accounts[a].exists /\ accounts[a].household = t.household
       IN  /\ hit => /\ ~AccountWriteLocked(w, a)
                     /\ ~AccountKeyShared(w, a)
                     /\ \A i \in Referencing(transactions, a) : ~TransactionLocked(w, i)
           /\ accounts' = IF hit THEN [accounts EXCEPT ![a] = NoAccount] ELSE accounts
           /\ transactions' =
                IF hit
                THEN [i \in TxnIds |-> IF i \in Referencing(transactions, a)
                                       THEN NoTransaction ELSE transactions[i]]
                ELSE transactions
           /\ tx' = [tx EXCEPT ![w] = Return(t, "ok")]
           /\ UNCHANGED created
    /\ UNCHANGED membership

\* A statement of AccountService.Delete fails in the store.
FailAccountDelete(w) ==
    /\ tx[w].pc \in {"count", "acctdelete"}
    /\ tx' = [tx EXCEPT ![w] = Return(tx[w], "StoreError")]
    /\ UNCHANGED <<accounts, transactions, created>>
    /\ UNCHANGED membership

----------------------------------------------------------------------------
(* AccountService.Get and AccountService.Update: one statement each on the pool. *)

\* Values of the name column.
AccountNames == {"n0", "n1"}

\* The SELECT without its household_id filter.
GetAccountOfAnyHousehold(acc, id, hh) ==
    IF acc[id].exists THEN [err |-> FALSE, row |-> acc[id]]
    ELSE [err |-> TRUE, row |-> NoAccount]

\* SELECT ... FROM accounts WHERE id = $1 AND household_id = $2
GetAccount(acc, id, hh) ==
    IF acc[id].exists /\ acc[id].household = hh
    THEN [err |-> FALSE, row |-> acc[id]]
    ELSE [err |-> TRUE, row |-> NoAccount]

\* An UPDATE of accounts that also writes the balance column.
UpdateAccountAndBalance(row, name) == [row EXCEPT !.name = name, !.balance = 0]

\* UPDATE accounts SET name = COALESCE($3, name), type = ..., currency = ...
UpdateAccount(row, name) == [row EXCEPT !.name = name]

\* AccountService.Get: any error of the SELECT is ErrAccountNotFound.
AccountGet(w, id, hh) ==
    /\ tx[w].pc = "idle"
    /\ \E failed \in BOOLEAN :
          tx' = [tx EXCEPT ![w] =
                    Return(Request("acctget", 0, hh, "none", "", id, Nil),
                           IF failed \/ GetAccount(accounts, id, hh).err
                           THEN "AccountNotFound" ELSE "ok")]
    /\ created' = NoCreated
    /\ UNCHANGED <<accounts, transactions>>
    /\ UNCHANGED membership

\* AccountService.Update: no row or any error of the UPDATE is ErrAccountNotFound.
AccountUpdate(w, id, hh, name) ==
    /\ tx[w].pc = "idle"
    /\ LET hit == ~GetAccount(accounts, id, hh).err
       IN  /\ hit => ~AccountWriteLocked(w, id)
           /\ \E failed \in BOOLEAN :
                 /\ accounts' = IF hit /\ ~failed
                                THEN [accounts EXCEPT ![id] = UpdateAccount(@, name)]
                                ELSE accounts
                 /\ tx' = [tx EXCEPT ![w] =
                             Return(Request("acctupdate", 0, hh, "none", "", id, Nil),
                                    IF hit /\ ~failed THEN "ok" ELSE "AccountNotFound")]
    /\ created' = NoCreated
    /\ UNCHANGED transactions
    /\ UNCHANGED membership

----------------------------------------------------------------------------
(* ExportService.ExportCSV: one SELECT on the pool, then one or two rows a record. *)

\* Step of a string of two decimal places, StringFixed(2), in units of 0.00005.
CentStep == 200

\* decimal.StringFixed(2): the value rounded to two places, ties away from zero, as the
\* number of hundredths its string shows.  A value that rounds to zero prints "0.00",
\* without a sign.
StringFixed2(x) ==
    LET up(n) == (2 * n + CentStep) \div (2 * CentStep)
    IN  IF x >= 0 THEN up(x) ELSE -up(-x)

\* The ids of the rows of ListTransactionsForExport: JOIN accounts a, household filter.
ExportIds(acc, txn, hh) ==
    {i \in TxnIds : txn[i].exists /\ txn[i].household = hh /\ acc[txn[i].account].exists}

\* The orders ORDER BY t.transacted_at DESC can list them in.
Orders(ids) ==
    {o \in [1 .. Cardinality(ids) -> ids] :
        \A j, k \in 1 .. Cardinality(ids) : j # k => o[j] # o[k]}

\* One row of the listing: a.name AS account_name, da.name AS destination_account_name
\* (NULL without a destination account: LEFT JOIN).
ListTransactionsForExportRow(acc, row) ==
    [type |-> row.type, amount |-> row.amount,
     account_name |-> acc[row.account].name,
     destination_account_name |->
        IF row.dest # Nil /\ acc[row.dest].exists THEN acc[row.dest].name ELSE Nil]

ListTransactionsForExport(acc, txn, order) ==
    [k \in 1 .. Len(order) |-> ListTransactionsForExportRow(acc, txn[order[k]])]

CsvHeader == [amount |-> "Amount", account |-> "Account", type |-> "Type"]

\* A loop body that writes one row for a record of any kind.
WriteSingleRow(r) ==
    <<[amount |-> StringFixed2(IF r.type = "expense" THEN -r.amount ELSE r.amount),
       account |-> r.account_name, type |-> r.type]>>

\* The body of the loop of ExportCSV: the rows written for one row of the listing.
WriteRows(r) ==
    IF r.type = "transfer"
    THEN <<[amount |-> StringFixed2(-r.amount), account |-> r.account_name,
            type |-> r.type],
           [amount |-> StringFixed2(r.amount),
            account |-> IF r.destination_account_name # Nil
                        THEN r.destination_account_name ELSE "",
            type |-> r.type]>>
    ELSE <<[amount |-> StringFixed2(IF r.type = "expense" THEN -r.amount ELSE r.amount),
            account |-> r.account_name, type |-> r.type]>>

RECURSIVE WriteAll(_)
WriteAll(rows) ==
    IF rows = <<>> THEN <<>> ELSE WriteRows(Head(rows)) \o WriteAll(Tail(rows))

\* ExportCSV: an error of the listing is returned before anything is written.
ExportCSV(w, hh) ==
    /\ tx[w].pc = "idle"
    /\ \E failed \in BOOLEAN, order \in Orders(ExportIds(accounts, transactions, hh)) :
          LET rows == ListTransactionsForExport(accounts, transactions, order)
          IN  tx' = [tx EXCEPT ![w] =
                        Return(Request("export", 0, hh, "none", "", "none", Nil),
                               IF failed
                               THEN [err |-> TRUE, rows |-> <<>>, csv |-> <<>>]
                               ELSE [err |-> FALSE, rows |-> rows,
                                     csv |-> <<CsvHeader>> \o WriteAll(rows)])]
    /\ created' = NoCreated
    /\ UNCHANGED <<accounts, transactions>>
    /\ UNCHANGED membership

----------------------------------------------------------------------------
(* HouseholdService.AcceptInvitation: a SELECT on the pool and two checks, then *)
(* RunInTx with an INSERT into household_members and an UPDATE of invitations.  *)

\* The users that hold the token of the invitation.
Users == {"u1", "u2"}

\* The token of the invitation, and a token no invitation has.
Tokens == {"t1", "t0"}

\* A call: its position, its result, and the uncommitted writes of its transaction.
NoCall == [pc |-> "idle", res |-> "none", member |-> FALSE, accepted |-> FALSE]

\* The invitation as created: pending, expires_at in the future.
InitMembership ==
    /\ invitations = [token |-> "t1", status |-> "pending", expired |-> FALSE]
    /\ household_members = {}
    /\ accept = [u \in Users |-> NoCall]

\* SELECT * FROM invitations WHERE token = $1, then the checks of status and
\* expires_at against time.Now(): the call is refused or opens its transaction.
GetInvitationByToken(u, token) ==
    /\ accept[u].pc = "idle"
    /\ \E failed \in BOOLEAN :
          accept' = [accept EXCEPT ![u] =
                        IF failed THEN [NoCall EXCEPT !.pc = "done", !.res = "StoreError"]
                        ELSE IF token # invitations.token
                                \/ invitations.status # "pending"
                                \/ invitations.expired
                        THEN [NoCall EXCEPT !.pc = "done", !.res = "InvitationInvalid"]
                        ELSE [NoCall EXCEPT !.pc = "addmember"]]
    /\ UNCHANGED <<invitations, household_members>>
    /\ UNCHANGED ledger

\* INSERT INTO household_members ... ON CONFLICT (household_id, user_id) DO NOTHING
AddHouseholdMember(u) ==
    /\ accept[u].pc = "addmember"
    /\ accept' = [accept EXCEPT ![u] = [@ EXCEPT !.pc = "accept", !.member = TRUE]]
    /\ UNCHANGED <<invitations, household_members>>
    /\ UNCHANGED ledger

\* UPDATE invitations SET status = 'accepted' WHERE id = $1: it waits for the open
\* transaction that updated the row, then updates the row whatever its status is.
AcceptInvitation(u) ==
    /\ accept[u].pc = "accept"
    /\ \A v \in Users \ {u} : ~accept[v].accepted
    /\ accept' = [accept EXCEPT ![u] = [@ EXCEPT !.pc = "commit", !.accepted = TRUE]]
    /\ UNCHANGED <<invitations, household_members>>
    /\ UNCHANGED ledger

\* fn returned nil: tx.Commit makes the member and the status the committed rows.
CommitAccept(u) ==
    /\ accept[u].pc = "commit"
    /\ household_members' = household_members \cup {u}
    /\ invitations' = [invitations EXCEPT !.status = "accepted"]
    /\ accept' = [accept EXCEPT ![u] = [NoCall EXCEPT !.pc = "done", !.res = "ok"]]
    /\ UNCHANGED ledger

\* A statement of the transaction or its commit fails: the deferred Rollback discards
\* the writes.
FailAccept(u) ==
    /\ accept[u].pc \in {"addmember", "accept", "commit"}
    /\ accept' = [accept EXCEPT ![u] = [NoCall EXCEPT !.pc = "done", !.res = "StoreError"]]
    /\ UNCHANGED <<invitations, household_members>>
    /\ UNCHANGED ledger

\* The handler has returned; the user may call again.
FinishAccept(u) ==
    /\ accept[u].pc = "done"
    /\ accept' = [accept EXCEPT ![u] = NoCall]
    /\ UNCHANGED <<invitations, household_members>>
    /\ UNCHANGED ledger

\* Time passes expires_at.
Expire ==
    /\ ~invitations.expired
    /\ invitations' = [invitations EXCEPT !.expired = TRUE]
    /\ UNCHANGED <<household_members, accept>>
    /\ UNCHANGED ledger

----------------------------------------------------------------------------
(* Specifications *)

Init ==
    /\ accounts = [a \in AccountIds |->
                      [exists |-> TRUE, household |-> AccountHousehold[a],
                       name |-> "n0", balance |-> OpeningBalance[a]]]
    /\ transactions = [i \in TxnIds |-> NoTransaction]
    /\ tx = [w \in Workers |-> Idle]
    /\ created = NoCreated
    /\ InitMembership

\* The statements of the transaction request a worker serves.
Serve(w) ==
    \/ Insert(w)
    \/ Get(w)
    \/ Update(w)
    \/ Delete(w)
    \/ Leg(w)
    \/ Commit(w)
    \/ Fail(w)
    \/ Finish(w)

\* destination_account_id of a request: any account with a transfer, absent otherwise.
Dests(type) == IF type = "transfer" THEN AccountIds \cup {Nil} ELSE {Nil}

\* Amount strings of the requests: malformed, and amounts of at most 4 fractional digits.
Amounts == {"abc", "0.0001", "0.0002"}

\* Spec: one request at a time on a fixed set of accounts.  Household h1 records
\* transactions; both households update and delete them.
Next ==
    \/ \E type \in TransactionTypes, amount \in Amounts, account \in AccountIds :
         \E dest \in Dests(type) :
            Quiet /\ BeginCreate("w1", "h1", type, amount, account, dest)
    \/ \E id \in TxnIds, hh \in Households, type \in TransactionTypes, amount \in Amounts,
          account \in AccountIds :
         \E dest \in Dests(type) :
            Quiet /\ BeginUpdate("w1", id, hh, type, amount, account, dest)
    \/ \E id \in TxnIds, hh \in Households :
            Quiet /\ BeginDelete("w1", id, hh)
    \/ Serve("w1")

Spec == Init /\ [][Next]_vars

\* Amount strings that include one of more than 4 fractional digits.
ScaleAmounts == {"0.00005", "0.0001"}

\* The accounts of household h1.
OwnAccounts == {a \in AccountIds : AccountHousehold[a] = "h1"}

ScaleDests(type) == IF type = "transfer" THEN OwnAccounts ELSE {Nil}

\* SpecScale: one request at a time, household h1 on its own accounts, with amounts
\* finer than the step of the balance column.
NextScale ==
    \/ \E type \in TransactionTypes, amount \in ScaleAmounts, account \in OwnAccounts :
         \E dest \in ScaleDests(type) :
            Quiet /\ BeginCreate("w1", "h1", type, amount, account, dest)
    \/ \E id \in TxnIds, type \in TransactionTypes, amount \in ScaleAmounts,
          account \in OwnAccounts :
         \E dest \in ScaleDests(type) :
            Quiet /\ BeginUpdate("w1", id, "h1", type, amount, account, dest)
    \/ \E id \in TxnIds :
            Quiet /\ BeginDelete("w1", id, "h1")
    \/ Serve("w1")

SpecScale == Init /\ [][NextScale]_vars

\* Amount strings that parse to zero, to a negative and to a positive decimal.
InputAmounts == {"0", "-0.0001", "0.0001"}

\* destination_account_id of a request when any kind may carry one.
InputDests == {"a2", Nil}

\* SpecInput: one request at a time, household h1 on account a1, with amounts of
\* either sign and a destination that does not depend on the kind.
NextInput ==
    \/ \E type \in TransactionTypes, amount \in InputAmounts, dest \in InputDests :
            Quiet /\ BeginCreate("w1", "h1", type, amount, "a1", dest)
    \/ \E id \in TxnIds, type \in TransactionTypes, amount \in InputAmounts,
          dest \in InputDests :
            Quiet /\ BeginUpdate("w1", id, "h1", type, amount, "a1", dest)
    \/ \E id \in TxnIds :
            Quiet /\ BeginDelete("w1", id, "h1")
    \/ Serve("w1")

SpecInput == Init /\ [][NextInput]_vars

\* SpecCreates: two workers record transactions of household h1 on its accounts at
\* the same time.
NextCreates ==
    \E w \in Workers :
        \/ \E type \in TransactionTypes, account \in OwnAccounts :
             \E dest \in ScaleDests(type) :
                BeginCreate(w, "h1", type, "0.0001", account, dest)
        \/ Insert(w)
        \/ Leg(w)
        \/ Commit(w)
        \/ Fail(w)
        \/ Finish(w)

SpecCreates == Init /\ [][NextCreates]_vars

\* The statements of an AccountService.Delete request a worker serves.
ServeAccountDelete(w) ==
    \/ Count(w)
    \/ DeleteAccount(w)
    \/ FailAccountDelete(w)

\* SpecAccountOps: one request at a time; household h1 records incomes and transfers
\* and deletes them, both households read, rename and delete accounts.
NextAccountOps ==
    \/ \E type \in {"income", "transfer"}, account \in AccountIds :
         \E dest \in Dests(type) :
            Quiet /\ BeginCreate("w1", "h1", type, "0.0001", account, dest)
    \/ \E id \in TxnIds :
            Quiet /\ BeginDelete("w1", id, "h1")
    \/ \E id \in AccountIds, hh \in Households :
            Quiet /\ AccountGet("w1", id, hh)
    \/ \E id \in AccountIds, hh \in Households, name \in AccountNames :
            Quiet /\ AccountUpdate("w1", id, hh, name)
    \/ \E id \in AccountIds, hh \in Households :
            Quiet /\ BeginAccountDelete("w1", id, hh)
    \/ Insert("w1")
    \/ Leg("w1")
    \/ Commit("w1")
    \/ Fail("w1")
    \/ Delete("w1")
    \/ ServeAccountDelete("w1")
    \/ Finish("w1")

SpecAccountOps == Init /\ [][NextAccountOps]_vars

\* The statements of a Create request.
ServeCreate(w) ==
    \/ Insert(w)
    \/ Leg(w)
    \/ Commit(w)
    \/ Fail(w)

\* SpecAccounts: one request at a time; household h1 records incomes and transfers
\* and deletes them, both households delete accounts.
NextAccounts ==
    \/ \E type \in {"income", "transfer"}, account \in AccountIds :
         \E dest \in Dests(type) :
            Quiet /\ BeginCreate("w1", "h1", type, "0.0001", account, dest)
    \/ \E id \in TxnIds :
            Quiet /\ BeginDelete("w1", id, "h1")
    \/ \E id \in AccountIds, hh \in Households :
            Quiet /\ BeginAccountDelete("w1", id, hh)
    \/ ServeCreate("w1")
    \/ Delete("w1")
    \/ ServeAccountDelete("w1")
    \/ Finish("w1")

SpecAccounts == Init /\ [][NextAccounts]_vars

\* Amount strings of at most 4 fractional digits.
WholeAmounts == {"0.0001", "0.0002"}

\* SpecConc: two workers serve requests of household h1 on account a1 at the same
\* time: incomes are recorded, updated and deleted.
NextConc ==
    \E w \in Workers :
        \/ \E amount \in WholeAmounts :
                BeginCreate(w, "h1", "income", amount, "a1", Nil)
        \/ \E id \in TxnIds, amount \in WholeAmounts :
                BeginUpdate(w, id, "h1", "income", amount, "a1", Nil)
        \/ \E id \in TxnIds :
                BeginDelete(w, id, "h1")
        \/ Serve(w)

SpecConc == Init /\ [][NextConc]_vars

\* SpecRace: worker w1 records incomes and expenses of household h1 while worker w2
\* deletes accounts of household h1.
NextRace ==
    \/ \E type \in {"income", "expense"}, account \in OwnAccounts :
            BeginCreate("w1", "h1", type, "0.0001", account, Nil)
    \/ ServeCreate("w1")
    \/ Finish("w1")
    \/ \E id \in OwnAccounts :
            BeginAccountDelete("w2", id, "h1")
    \/ ServeAccountDelete("w2")
    \/ Finish("w2")

SpecRace == Init /\ [][NextRace]_vars

\* Amounts of stored records that two decimal places show as 0.00, 0.01 and 0.02:
\* 0.0001, 0.005 and 0.015.
ExportAmounts == {2, 100, 300}

\* Records the ledger can hold: a transfer has a destination, the other kinds may.
StoredRows ==
    {r \in [exists : {TRUE}, household : Households, type : TransactionTypes,
            amount : ExportAmounts, account : AccountIds, dest : AccountIds \cup {Nil}] :
        /\ r.type = "transfer" => r.dest # Nil
        /\ r.type # "transfer" => r.dest \in InputDests}

\* The name each account was given.
ExportName == [a \in AccountIds |-> IF a = "a2" THEN "n1" ELSE "n0"]

InitExport ==
    /\ accounts = [a \in AccountIds |->
                      [exists |-> TRUE, household |-> AccountHousehold[a],
                       name |-> ExportName[a], balance |-> OpeningBalance[a]]]
    /\ transactions \in [TxnIds -> StoredRows \cup {NoTransaction}]
    /\ tx = [w \in Workers |-> Idle]
    /\ created = NoCreated
    /\ InitMembership

\* SpecExport: either household exports a ledger that holds any records.
NextExport ==
    \/ \E hh \in Households : ExportCSV("w1", hh)
    \/ Finish("w1")

SpecExport == InitExport /\ [][NextExport]_vars

\* SpecDeletes: household h1 records incomes and transfers from a1 to a2 one at a
\* time, and both workers delete them at any time.
NextDeletes ==
    \/ \E type \in {"income", "transfer"} :
            Quiet /\ BeginCreate("w1", "h1", type, "0.0001", "a1",
                                 IF type = "transfer" THEN "a2" ELSE Nil)
    \/ Insert("w1")
    \/ \E w \in Workers :
          \/ \E id \in TxnIds : BeginDelete(w, id, "h1")
          \/ Delete(w)
          \/ Leg(w)
          \/ Commit(w)
          \/ Fail(w)
          \/ Finish(w)

SpecDeletes == Init /\ [][NextDeletes]_vars

\* SpecOpposite: worker w1 records transfers from a1 to a2 while worker w2 records
\* transfers from a2 to a1.  A statement that can run is run, a statement that waits
\* for a row lock gets the lock once it is free (the store queues the waiters), and a
\* lock cycle is broken; any statement may also fail.
NextOpposite ==
    \/ BeginCreate("w1", "h1", "transfer", "0.0001", "a1", "a2")
    \/ BeginCreate("w2", "h1", "transfer", "0.0001", "a2", "a1")
    \/ \E w \in Workers :
          \/ Insert(w)
          \/ Leg(w)
          \/ Commit(w)
          \/ Deadlock(w)
          \/ Fail(w)
          \/ Finish(w)

FairOpposite ==
    \A w \in Workers :
        /\ WF_vars(Insert(w))
        /\ SF_vars(Leg(w))
        /\ WF_vars(Commit(w))
        /\ WF_vars(Deadlock(w))

SpecOpposite == Init /\ [][NextOpposite]_vars /\ FairOpposite

\* SpecInvite: the users that hold the token call AcceptInvitation at any time,
\* with the token or with another one, while time passes.
NextInvite ==
    \/ \E u \in Users :
          \/ \E token \in Tokens : GetInvitationByToken(u, token)
          \/ AddHouseholdMember(u)
          \/ AcceptInvitation(u)
          \/ CommitAccept(u)
          \/ FailAccept(u)
          \/ FinishAccept(u)
    \/ Expire

SpecInvite == Init /\ [][NextInvite]_vars

----------------------------------------------------------------------------
(* The delta table: what a record of each kind contributes to an account. *)

SignedDelta(type, amount, account, dest, a) ==
    CASE type = "income" -> IF account = a THEN amount ELSE 0
      [] type = "expense" -> IF account = a THEN -amount ELSE 0
      [] type = "transfer" ->
            (IF account = a THEN -amount ELSE 0) + (IF dest = a THEN amount ELSE 0)
      [] OTHER -> 0

RowDelta(row, a) ==
    IF row.exists THEN SignedDelta(row.type, row.amount, row.account, row.dest, a) ELSE 0

RECURSIVE SumDeltas(_, _, _)
SumDeltas(txn, n, a) ==
    IF n = 0 THEN 0 ELSE RowDelta(txn[n], a) + SumDeltas(txn, n - 1, a)

\* No request is between its first statement and the end of its transaction.
Settled == \A w \in Workers : ~InFlight(tx[w])

\* Every balance is the opening balance plus the deltas of the records that exist.
Reconstructed ==
    \A a \in AccountIds :
        accounts[a].exists =>
            accounts[a].balance = OpeningBalance[a] + SumDeltas(transactions, MaxTxn, a)

\* The amount a request carries, as given and as a DECIMAL(19,4) column stores it.
Readings(t) == {t.value, Round4(t.value)}

\* Worker w ends its request with this step.
Completes(w) == tx[w].pc # "done" /\ tx'[w].pc = "done"

----------------------------------------------------------------------------
(* Claims *)

\* C1: with fixed accounts and one request at a time, after any sequence of Create,
\* Update and Delete every balance equals the opening balance plus the signed deltas
\* of the records that exist.
C1_BalanceReconstruction == Settled => Reconstructed

\* C2: when Create, Update and Delete requests on the same records and accounts
\* overlap, once all of them have committed or rolled back every balance equals the
\* opening balance plus the signed deltas of the records that exist.
C2_ConcurrentReconstruction ==
    (\A w \in Workers : tx[w].pc \in {"idle", "done"})
    => \A a \in AccountIds :
          accounts[a].balance = OpeningBalance[a] + SumDeltas(transactions, MaxTxn, a)

\* C3: a successful Update changes every balance by minus the delta of the stored
\* pre-image plus the delta of the new input.
C3_UpdateReversesThenApplies ==
    [][\A w \in Workers :
          (tx[w].op = "update" /\ Completes(w) /\ tx'[w].res = "ok")
          => \E A \in Readings(tx[w]) :
                \A a \in AccountIds :
                    accounts'[a].balance =
                        accounts[a].balance - RowDelta(transactions[tx[w].id], a)
                        + SignedDelta(tx[w].type, A, tx[w].account, tx[w].dest, a)]_vars

\* C4: a successful Create with amount A changes the balances as the delta table says
\* for its kind, changes no other balance and adds exactly one record.
C4_CreateAppliesDelta ==
    [][\A w \in Workers :
          (tx[w].op = "create" /\ Completes(w) /\ tx'[w].res = "ok")
          => /\ \E A \in Readings(tx[w]) :
                   \A a \in AccountIds :
                       accounts'[a].balance =
                           accounts[a].balance
                           + SignedDelta(tx[w].type, A, tx[w].account, tx[w].dest, a)
             /\ ~transactions[tx[w].id].exists
             /\ transactions'[tx[w].id].exists
             /\ \A i \in TxnIds \ {tx[w].id} : transactions'[i] = transactions[i]]_vars

\* C5: a Delete that directly follows the Create of the same transaction puts every
\* balance back to its value before the Create and removes the record.
C5_CreateThenDeleteRestores ==
    [][\A w \in Workers :
          (/\ tx[w].op = "delete" /\ created.id # 0 /\ tx[w].id = created.id
           /\ ~created.updated
           /\ Completes(w) /\ tx'[w].res = "ok")
          => /\ \A a \in AccountIds : accounts'[a].balance = created.balances[a]
             /\ ~transactions'[created.id].exists]_vars

\* C6: when the destination leg of a transfer Create fails after the source leg
\* was applied, Create returns an error, no record is added and no balance changes.
C6_TransferLegsAllOrNothing ==
    [][\A w \in Workers :
          (/\ tx[w].op = "create" /\ tx[w].type = "transfer"
           /\ tx[w].pc = "legs" /\ Len(tx[w].legs) = 1
           /\ Completes(w))
          => /\ tx'[w].res \notin {"ok", "none"}
             /\ accounts' = accounts
             /\ transactions' = transactions
             /\ tx'[w].wacc = NoWrite /\ tx'[w].wtxn = NoRowWrite]_vars

\* A transfer Create has returned an error from its destination leg.
C6_Witness ==
    \E w \in Workers :
        /\ tx[w].op = "create" /\ tx[w].type = "transfer"
        /\ tx[w].pc = "done" /\ tx[w].res = "StoreError"
        /\ tx[w].after = "commit" /\ Len(tx[w].legs) = 1
        /\ ~transactions[tx[w].id].exists

\* C7: no step of an Update that does not end in its successful commit changes a
\* committed record or balance, whichever step the Update fails at.
C7_UpdateFailureRestores ==
    [][\A w \in Workers :
          (tx'[w].op = "update" /\ ~(tx'[w].pc = "done" /\ tx'[w].res = "ok"))
          => /\ accounts' = accounts
             /\ transactions' = transactions
             /\ tx'[w].pc = "done" => tx'[w].wacc = NoWrite /\ tx'[w].wtxn = NoRowWrite]_vars

\* An Update has failed applying a new delta, after it reversed the pre-image and
\* overwrote the record.
C7_Witness ==
    \E w \in Workers :
        /\ tx[w].op = "update" /\ tx[w].pc = "done" /\ tx[w].res = "StoreError"
        /\ tx[w].after = "commit" /\ tx[w].legs # <<>>
        /\ transactions[tx[w].id].exists

\* C11: a Create or Update whose amount parses to zero or to a negative decimal fails
\* and leaves every record and balance unchanged.  The claim names the error,
\* InvalidAmount; any error is accepted here, so that only a request that succeeds
\* violates the formula.
C11_NonPositiveAmountRejected ==
    [][\A w \in Workers :
          (/\ tx'[w].op \in {"create", "update"} /\ Completes(w)
           /\ ~NewFromString(tx'[w].amount).err
           /\ NewFromString(tx'[w].amount).value <= 0)
          => /\ tx'[w].res # "ok"
             /\ accounts' = accounts
             /\ transactions' = transactions]_vars

\* C12: every stored record has a destination account exactly when its kind is
\* transfer.
C12_DestinationIffTransfer ==
    \A i \in TxnIds :
        transactions[i].exists
        => (transactions[i].dest # Nil <=> transactions[i].type = "transfer")

\* C13: a Create whose amount does not parse ends with the invalid-amount error, and a
\* transfer Create without destination ends with TransferMissingDest; both end before
\* the transaction is opened, insert no record and change no balance.
C13_CreateValidatesBeforeMutation ==
    [][\A w \in Workers :
          (tx'[w].op = "create" /\ Completes(w)
           /\ (NewFromString(tx'[w].amount).err
               \/ (tx'[w].type = "transfer" /\ tx'[w].dest = Nil)))
          => /\ tx'[w].res =
                   IF NewFromString(tx'[w].amount).err THEN "InvalidAmount"
                   ELSE "TransferMissingDest"
             /\ tx[w].pc = "idle"
             /\ accounts' = accounts
             /\ transactions' = transactions]_vars

\* A transfer Create without destination has ended with TransferMissingDest.
C13_Witness ==
    \E w \in Workers :
        /\ tx[w].op = "create" /\ tx[w].pc = "done"
        /\ tx[w].type = "transfer" /\ tx[w].dest = Nil
        /\ ~NewFromString(tx[w].amount).err
        /\ tx[w].res = "TransferMissingDest"

\* The record a request names is absent or belongs to another household.
Missing(t) ==
    ~(transactions[t.id].exists /\ transactions[t.id].household = t.household)

C15_NoLostIncrement ==
    (\A w \in Workers : ~InFlight(tx[w]))
    => \A a \in AccountIds :
          accounts[a].balance - OpeningBalance[a] = SumDeltas(transactions, MaxTxn, a)

\* One Create has incremented an account and not yet committed while another Create
\* is at an increment of the same account.
C15_Witness ==
    \E w \in Workers, v \in Workers :
        /\ w # v
        /\ tx[w].op = "create" /\ tx[w].pc = "commit"
        /\ tx[v].op = "create" /\ tx[v].pc = "legs"
        /\ tx[w].wacc[Head(tx[v].legs).id].written

\* C16: a single read of the committed rows, at any moment of a Create, Update or
\* Delete, sees every balance equal to the opening balance plus the deltas of the
\* records it sees: no leg, record or reversal is visible without the rest.
C16_ReadsSeeWholeOperations ==
    \A a \in AccountIds :
        ReadAccount(accounts, a).balance =
            OpeningBalance[a]
            + SumDeltas([i \in TxnIds |-> ReadTransaction(transactions, i)], MaxTxn, a)

\* A transfer Create has applied its source leg and not yet its destination leg.
C16_Witness ==
    \E w \in Workers :
        /\ tx[w].op = "create" /\ tx[w].type = "transfer"
        /\ tx[w].pc = "legs" /\ Len(tx[w].legs) = 1
        /\ tx[w].wacc[tx[w].account].written
        /\ tx[w].account # tx[w].dest

\* The fields of request t are the ones the record already stores.
Same(t, row) ==
    /\ row.exists /\ row.household = t.household
    /\ t.type = row.type /\ t.value = row.amount
    /\ t.account = row.account /\ t.dest = row.dest

\* C17: the balance of an account is never overwritten: AccountService.Update leaves
\* every balance unchanged, and a balance changes only in the commit of a transaction
\* Create, Update or Delete, to the value its signed increments produced.
C17_BalanceOnlyByDeltas ==
    [][/\ \A w \in Workers :
            (tx'[w].op = "acctupdate" /\ Completes(w))
            => \A a \in AccountIds : accounts'[a].balance = accounts[a].balance
       /\ \A a \in AccountIds :
            (accounts[a].exists /\ accounts'[a].exists
             /\ accounts'[a].balance # accounts[a].balance)
            => \E w \in Workers :
                  /\ tx[w].op \in {"create", "update", "delete"}
                  /\ tx[w].pc = "commit"
                  /\ tx[w].wacc[a].written
                  /\ accounts'[a].balance = tx[w].wacc[a].balance]_vars

\* AccountService.Update has renamed an account whose balance transactions had moved
\* away from zero and from its opening balance.
C17_Witness ==
    \E w \in Workers :
        /\ tx[w].op = "acctupdate" /\ tx[w].pc = "done" /\ tx[w].res = "ok"
        /\ accounts[tx[w].account].name = "n1"
        /\ accounts[tx[w].account].balance # OpeningBalance[tx[w].account]
        /\ accounts[tx[w].account].balance # 0

\* C18: an Update to the field values the record already stores leaves every
\* balance unchanged.
C18_IdenticalUpdateKeepsBalances ==
    [][\A w \in Workers :
          (tx[w].op = "update" /\ Completes(w)
           /\ Same(tx[w], transactions[tx[w].id]))
          => \A a \in AccountIds : accounts'[a].balance = accounts[a].balance]_vars

\* An Update to identical field values has reversed and re-applied the delta and is
\* about to commit.
C18_Witness ==
    \E w \in Workers :
        /\ tx[w].op = "update" /\ tx[w].pc = "commit"
        /\ Same(tx[w], transactions[tx[w].id])
        /\ tx[w].wacc[tx[w].account].written

\* C19: AccountService.Get for an id that exists in another household ends with the
\* same NotFound as for an id that exists in no household: the outcome depends only
\* on the rows of the caller's household.
C19_ForeignAccountLooksAbsent ==
    \A w \in Workers :
        (/\ tx[w].op = "acctget" /\ tx[w].pc = "done"
         /\ ~(accounts[tx[w].account].exists
              /\ accounts[tx[w].account].household = tx[w].household))
        => tx[w].res = "AccountNotFound"

\* AccountService.Get has ended for an account that exists in another household
\* while some other account exists in no household.
C19_Witness ==
    \E w \in Workers :
        /\ tx[w].op = "acctget" /\ tx[w].pc = "done" /\ tx[w].res = "AccountNotFound"
        /\ accounts[tx[w].account].exists
        /\ accounts[tx[w].account].household # tx[w].household
        /\ \E a \in AccountIds : ~accounts[a].exists

\* C20: a Create, Update or Delete that is cancelled or times out before its commit
\* is rolled back: only the step that commits changes a record or a balance.
C20_CancelledIsRolledBack ==
    [][\A w \in Workers :
          (/\ tx[w].op \in {"create", "update", "delete"}
           /\ InFlight(tx[w])
           /\ ~(tx[w].pc = "commit" /\ tx'[w].pc = "done" /\ tx'[w].res = "ok"))
          => /\ accounts' = accounts
             /\ transactions' = transactions
             /\ tx'[w].pc = "done"
                => /\ tx'[w].res # "ok"
                   /\ tx'[w].wacc = NoWrite /\ tx'[w].wtxn = NoRowWrite]_vars

\* A Delete has been cancelled after it deleted the record and reversed its delta.
C20_Witness ==
    \E w \in Workers :
        /\ tx[w].op = "delete" /\ tx[w].pc = "done" /\ tx[w].res = "StoreError"
        /\ tx[w].after = "commit" /\ tx[w].legs = <<>>
        /\ transactions[tx[w].id].exists

\* C8: AccountService.Delete ends with HasTransactions whenever a record references
\* the account as source or destination, and then changes nothing; an account is
\* deleted only when no record references it, and no record is ever removed.
C8_DeleteRefusedWhenReferenced ==
    [][\A w \in Workers :
          tx[w].op = "acctdelete"
          => /\ transactions' = transactions
             /\ (Completes(w) /\ Referencing(transactions, tx[w].account) # {})
                => /\ tx'[w].res \in {"HasTransactions", "StoreError"}
                   /\ accounts' = accounts
             /\ accounts' # accounts
                => Referencing(transactions, tx[w].account) = {}]_vars

\* The accounts a request names that belong to another household than the caller's.
Foreign(t) ==
    {a \in Refs(t.account, t.dest) : accounts[a].exists /\ accounts[a].household # t.household}

\* C9: a Create or Update for household H that names an account of another household
\* does not succeed and leaves the balance of that account unchanged.
C9_OwnHouseholdOnly ==
    [][\A w \in Workers :
          (tx'[w].op \in {"create", "update"} /\ Completes(w) /\ Foreign(tx'[w]) # {})
          => /\ tx'[w].res # "ok"
             /\ \A a \in Foreign(tx'[w]) : accounts'[a].balance = accounts[a].balance]_vars

\* C10: in no interleaving of a Create that references account X with an
\* AccountService.Delete of X is X deleted while a committed record references it.
C10_CreateCannotRacePastCheck ==
    [][\A w \in Workers :
          (tx[w].op = "acctdelete" /\ accounts[tx[w].account].exists
           /\ ~accounts'[tx[w].account].exists)
          => \A i \in TxnIds :
                transactions[i].exists => transactions[i].account # tx[w].account]_vars

\* The request of worker t passed validation and names a record of its household.
Servable(t) ==
    /\ t.op \in {"create", "update"} => Validate(t.amount, t.type, t.dest) = "none"
    /\ t.op \in {"update", "delete"} => ~Missing(t)

\* C21: a Create, Update or Delete whose input is valid and whose record exists, and
\* that fails in the store, ends with an error other than InvalidAmount,
\* TransferMissingDest and NotFound.
C21_StoreFailureIsDistinct ==
    [][\A w \in Workers :
          (/\ tx'[w].op \in {"create", "update", "delete"} /\ Completes(w)
           /\ Servable(tx'[w]) /\ tx'[w].res # "ok")
          => tx'[w].res \notin {"InvalidAmount", "TransferMissingDest", "NotFound"}]_vars

\* Rows of the CSV that precede the rows of entry k of the listing, the header included.
RECURSIVE RowsBefore(_, _)
RowsBefore(rows, k) ==
    IF k = 1 THEN 1
    ELSE RowsBefore(rows, k - 1) + (IF rows[k - 1].type = "transfer" THEN 2 ELSE 1)

\* The string of h hundredths is the value x itself.
ShowsExactly(h, x) == h * CentStep = x

\* The string of h hundredths is the value x to the nearest hundredth, a tie going
\* away from zero.
ShowsToTheCent(h, x) ==
    /\ 2 * Abs(h * CentStep - x) <= CentStep
    /\ 2 * Abs(h * CentStep - x) = CentStep => Abs(h * CentStep) > Abs(x)

Shows(h, x, exact) == IF exact THEN ShowsExactly(h, x) ELSE ShowsToTheCent(h, x)

\* The CSV has the header, then for each entry of the listing, in its order, two rows
\* for a transfer (the source name with -A shown, then the destination name with A
\* shown) and one row for an income (A shown) or an expense (-A shown).
ExportShape(res, exact) ==
    LET rows == res.rows
        csv == res.csv
    IN  /\ csv[1] = CsvHeader
        /\ Len(csv) = RowsBefore(rows, Len(rows) + 1)
        /\ \A k \in 1 .. Len(rows) :
              LET at == RowsBefore(rows, k)
                  r == rows[k]
              IN  CASE r.type = "transfer" ->
                          /\ Shows(csv[at + 1].amount, -r.amount, exact)
                          /\ csv[at + 1].account = r.account_name
                          /\ Shows(csv[at + 2].amount, r.amount, exact)
                          /\ csv[at + 2].account = r.destination_account_name
                    [] r.type = "income" ->
                          /\ Shows(csv[at + 1].amount, r.amount, exact)
                          /\ csv[at + 1].account = r.account_name
                    [] OTHER ->
                          /\ Shows(csv[at + 1].amount, -r.amount, exact)
                          /\ csv[at + 1].account = r.account_name

\* C22 as amended: after the header row ExportCSV emits, in the order of the export
\* listing, two rows for each transfer (source account name, then destination account
\* name) and one row for each income or expense, and the amounts shown are -A then A,
\* A, and -A rounded to two decimal places.
C22_ExportRowsToTheCent ==
    \A w \in Workers :
        (tx[w].op = "export" /\ tx[w].pc = "done" /\ ~tx[w].res.err)
        => ExportShape(tx[w].res, FALSE)

\* C22 as stated: the same rows, with the amounts -A then A, A, and -A themselves.
C22_ExportRowsExact ==
    \A w \in Workers :
        (tx[w].op = "export" /\ tx[w].pc = "done" /\ ~tx[w].res.err)
        => ExportShape(tx[w].res, TRUE)

\* An export has listed an expense of 0.015 before a transfer of 0.005 between
\* accounts of different names.
C22_Witness ==
    \E w \in Workers :
        /\ tx[w].op = "export" /\ tx[w].pc = "done" /\ ~tx[w].res.err
        /\ Len(tx[w].res.rows) = 2 /\ Len(tx[w].res.csv) = 4
        /\ tx[w].res.rows[1].type = "expense" /\ tx[w].res.rows[1].amount = 300
        /\ tx[w].res.rows[2].type = "transfer" /\ tx[w].res.rows[2].amount = 100
        /\ tx[w].res.rows[2].account_name # tx[w].res.rows[2].destination_account_name

\* C23: a Delete that follows the Create of the same transaction and one or more
\* successful Updates of it, which change kind, amount, source and destination in any
\* way, puts every balance back to its value before the Create.  (With no Update in
\* between this is C5.)
C23_UpdatesThenDeleteRestore ==
    [][\A w \in Workers :
          (/\ tx[w].op = "delete" /\ created.id # 0 /\ tx[w].id = created.id
           /\ created.updated
           /\ Completes(w) /\ tx'[w].res = "ok")
          => \A a \in AccountIds : accounts'[a].balance = created.balances[a]]_vars

\* C24: a record's delta is reversed at most once.  A Delete that ends while the
\* record does not exist ends with NotFound and changes nothing.  A Delete that ends
\* while the record exists, and not by a failure of the store, succeeds, removes the
\* record and changes every balance by minus its delta, and no other Delete of that id
\* has succeeded; one that the store fails changes nothing.  So of two Deletes of one
\* id, one after the other or overlapping, exactly one succeeds and the other ends
\* with NotFound.
C24_DeleteReversesOnce ==
    [][\A w \in Workers :
          (tx[w].op = "delete" /\ Completes(w))
          => LET id == tx[w].id
             IN  IF Missing(tx[w])
                 THEN /\ tx'[w].res = "NotFound"
                      /\ accounts' = accounts
                      /\ transactions' = transactions
                 ELSE IF Fail(w)
                 THEN /\ tx'[w].res # "ok"
                      /\ accounts' = accounts
                      /\ transactions' = transactions
                 ELSE /\ tx'[w].res = "ok"
                      /\ ~transactions'[id].exists
                      /\ \A a \in AccountIds :
                            accounts'[a].balance =
                                accounts[a].balance - RowDelta(transactions[id], a)
                      /\ \A v \in Workers \ {w} :
                            (tx[v].op = "delete" /\ tx[v].id = id /\ tx[v].pc = "done")
                            => tx[v].res # "ok"]_vars

\* Two Deletes of one transfer overlap: one has deleted the record and reversed its
\* legs, the other waits at its DELETE for the lock on the record.
C24_Witness ==
    \E w \in Workers, v \in Workers :
        /\ w # v
        /\ tx[w].op = "delete" /\ tx[w].pc = "commit" /\ tx[w].wtxn.written
        /\ transactions[tx[w].id].type = "transfer"
        /\ tx[v].op = "delete" /\ tx[v].pc = "delete" /\ tx[v].id = tx[w].id

\* The records a statement can read: the committed ones and the uncommitted row of
\* each open transaction.
StoredRecords ==
    {transactions[i] : i \in {j \in TxnIds : transactions[j].exists}}
    \cup {tx[w].wtxn.row : w \in {v \in Workers : tx[v].wtxn.written /\ tx[v].wtxn.row.exists}}

\* C25: for the kind, amount, source and destination of every stored record,
\* applyBalanceChange returns no error, and reverseBalanceChange makes the same
\* UpdateBalance calls on the same accounts in the same order with every delta
\* negated: it skips no leg that apply performs.
C25_ReverseNegatesApply ==
    \A row \in StoredRecords :
        LET ap == applyBalanceChange(row.type, row.amount, row.account, row.dest)
            rv == reverseBalanceChange(row.type, row.amount, row.account, row.dest)
        IN  /\ ap.err = "none" /\ rv.err = "none"
            /\ ap.legs # <<>>
            /\ Len(rv.legs) = Len(ap.legs)
            /\ \A k \in 1 .. Len(ap.legs) :
                  /\ rv.legs[k].id = ap.legs[k].id
                  /\ rv.legs[k].delta = -ap.legs[k].delta

\* A Delete has reversed the source leg of a stored transfer between two accounts and
\* is at the reversal of its destination leg.
C25_Witness ==
    \E w \in Workers :
        /\ tx[w].op = "delete" /\ tx[w].pc = "legs" /\ Len(tx[w].legs) = 1
        /\ transactions[tx[w].id].type = "transfer"
        /\ transactions[tx[w].id].account # transactions[tx[w].id].dest
        /\ Head(tx[w].legs).id = transactions[tx[w].id].dest
        /\ Head(tx[w].legs).delta = -transactions[tx[w].id].amount

\* The record is a transfer whose source and destination are account a.
SelfTransfer(row, a) ==
    row.exists /\ row.type = "transfer" /\ row.account = a /\ row.dest = a

\* C26: a transfer from an account to itself has no net effect on its balance: the
\* balance is the same after the successful Create as before it, after a successful
\* Update of such a transfer to another amount, and after its successful Delete.
C26_SelfTransferNetZero ==
    [][\A w \in Workers, a \in AccountIds :
          (/\ Completes(w) /\ tx'[w].res = "ok"
           /\ \/ /\ tx[w].op = "create"
                 /\ tx[w].type = "transfer" /\ tx[w].account = a /\ tx[w].dest = a
              \/ /\ tx[w].op = "update"
                 /\ SelfTransfer(transactions[tx[w].id], a)
                 /\ tx[w].type = "transfer" /\ tx[w].account = a /\ tx[w].dest = a
              \/ /\ tx[w].op = "delete"
                 /\ SelfTransfer(transactions[tx[w].id], a))
          => accounts'[a].balance = accounts[a].balance]_vars

\* C27: for every amount string that Create or Update accepts, of more than 4
\* fractional digits too, the change made to each balance is the delta of the amount
\* the record stores: a successful Create changes every balance by the delta of the
\* record it stored, and a successful Update by minus the delta of the record it
\* found plus the delta of the record it stored.
C27_BalanceChangeIsStoredAmount ==
    [][\A w \in Workers :
          (tx[w].op \in {"create", "update"} /\ Completes(w) /\ tx'[w].res = "ok")
          => \A a \in AccountIds :
                accounts'[a].balance - accounts[a].balance =
                    RowDelta(transactions'[tx[w].id], a) - RowDelta(transactions[tx[w].id], a)]_vars

\* C28: when transfers from A to B and from B to A run at the same time, each of them
\* ends, committed or rolled back with an error: none waits forever for the row the
\* other holds; and once they have ended every balance is the opening balance plus the
\* deltas of the records that exist.
C28_OppositeTransfersTerminate ==
    /\ \A w \in Workers : InFlight(tx[w]) ~> (tx[w].pc = "done")
    /\ [](Settled => Reconstructed)

\* Each transfer has applied its source leg and waits for the row the other holds.
C28_Witness ==
    /\ WaitsFor("w1", "w2") /\ WaitsFor("w2", "w1")
    /\ tx["w1"].wacc["a1"].written /\ tx["w2"].wacc["a2"].written

\* C29: AccountService.Delete by a household that does not own the account changes no
\* account and no record, and ends the same way whether the account exists under
\* another household or under none, with or without transactions.  An id that exists
\* under no household has no transactions, so the call never ends with
\* HasTransactions.
C29_ForeignDeleteTellsNothing ==
    [][\A w \in Workers :
          (/\ tx'[w].op = "acctdelete" /\ Completes(w)
           /\ GetAccount(accounts, tx'[w].account, tx'[w].household).err)
          => /\ accounts' = accounts
             /\ transactions' = transactions
             /\ tx'[w].res # "HasTransactions"]_vars

\* C30: an invitation is accepted at most once.  A call succeeds only while the
\* invitation is pending, so that after one call has succeeded no call with the same
\* token does; at most one user is a member through the invitation; and a call made
\* when the status is not pending or the expiry time has passed is refused.
C30_AcceptedAtMostOnce ==
    [][/\ \A u \in Users :
            (accept[u].pc # "done" /\ accept'[u].pc = "done" /\ accept'[u].res = "ok")
            => invitations.status = "pending"
       /\ Cardinality(household_members') <= 1
       /\ \A u \in Users :
            (accept[u].pc = "idle" /\ accept'[u].pc # "idle"
             /\ (invitations.status # "pending" \/ invitations.expired))
            => accept'[u].pc = "done" /\ accept'[u].res # "ok"]_vars

====
